---------------------------- MODULE Spec2Model ----------------------------
(***************************************************************************)
(* video_sub_creator: the batch pipeline of VideoProcessor (discovery,     *)
(* model load, thread-pool dispatch, per-file extract / transcribe /       *)
(* write) and the subtitle serialisation of SubtitleGenerator.             *)
(*                                                                         *)
(* Text is modelled as a sequence of one-character strings, so that file   *)
(* names, timestamps and subtitle files are built and parsed character by  *)
(* character as the Python code builds them.                               *)
(***************************************************************************)
EXTENDS Integers, Sequences, FiniteSets, TLC

(***************************************************************************)
(* Bounds of the model.                                                    *)
(***************************************************************************)
\* entries os.listdir may return for the source directory
MaxFiles == 2
\* processors os.cpu_count() may report
MaxCpus == 1
\* bytes a failing flush puts into the file before it fails
ShortWrite == 20
\* repetitions of "OLD" in an output file left by an earlier run
OldRepeats == 60
\* segments of a transcript handed to the writers (writer specification)
MaxSegs == 2
\* total number of text characters of such a transcript
MaxTextLen == 4
\* characters of a segment text handed to the sanitizer (sanitizer
\* specification)
MaxArrowLen == 4
\* milliseconds around each unit boundary drawn as timestamps (timestamp
\* specification)
MaxDelta == 2

(***************************************************************************)
(* Generic helpers on character sequences.                                 *)
(***************************************************************************)
RECURSIVE Concat(_)
\* "".join(parts)
Concat(parts) ==
    IF parts = <<>> THEN <<>> ELSE Head(parts) \o Concat(Tail(parts))

\* str.endswith(suffix)
EndsWith(s, suffix) ==
    /\ Len(suffix) <= Len(s)
    /\ SubSeq(s, Len(s) - Len(suffix) + 1, Len(s)) = suffix

\* str.rfind(ch) as a 1-based index, 0 when absent
RFind(s, ch) ==
    LET hits == {i \in 1..Len(s) : s[i] = ch}
    IN  IF hits = {} THEN 0 ELSE CHOOSE i \in hits : \A k \in hits : k <= i

\* whether sub occurs in s at position i
OccursAt(s, sub, i) ==
    /\ i >= 1
    /\ i + Len(sub) - 1 <= Len(s)
    /\ SubSeq(s, i, i + Len(sub) - 1) = sub

\* sub in s
Contains(s, sub) == \E i \in 1..Len(s) : OccursAt(s, sub, i)

\* A text is a sequence of characters.  An ASCII character is the string of
\* that one character; a character outside ASCII is the string of its code
\* point, "U+2003", which no locale reads differently.
\*
\* Such a name is "U+" and the four to six hexadecimal digits of the code
\* point, which is 0x80 or above.
\*
\* The characters str.strip() removes: the 29 for which str.isspace() holds.
Whitespace ==
    {" ", "\t", "\n", "\r", "\f", "", "", "", "", ""}
    \cup {"U+0085", "U+00A0", "U+1680"}
    \cup {"U+2000", "U+2001", "U+2002", "U+2003", "U+2004", "U+2005",
          "U+2006", "U+2007", "U+2008", "U+2009", "U+200A"}
    \cup {"U+2028", "U+2029", "U+202F", "U+205F", "U+3000"}

RECURSIVE LStrip(_)
LStrip(s) ==
    IF s # <<>> /\ Head(s) \in Whitespace THEN LStrip(Tail(s)) ELSE s

RECURSIVE RStrip(_)
RStrip(s) ==
    IF s # <<>> /\ s[Len(s)] \in Whitespace
    THEN RStrip(SubSeq(s, 1, Len(s) - 1)) ELSE s

\* str.strip()
Strip(s) == RStrip(LStrip(s))

RECURSIVE Replace(_, _, _)
\* str.replace(old, new): leftmost non-overlapping occurrences, one pass
Replace(s, old, new) ==
    IF s = <<>> THEN <<>>
    ELSE IF OccursAt(s, old, 1)
         THEN new \o Replace(SubSeq(s, Len(old) + 1, Len(s)), old, new)
         ELSE <<Head(s)>> \o Replace(Tail(s), old, new)

RECURSIVE SplitLines(_)
\* str.split("\n")
SplitLines(s) ==
    LET nl == {i \in 1..Len(s) : s[i] = "\n"}
    IN  IF nl = {} THEN <<s>>
        ELSE LET i == CHOOSE k \in nl : \A m \in nl : k <= m
             IN  <<SubSeq(s, 1, i - 1)>> \o SplitLines(SubSeq(s, i + 1, Len(s)))

HexDigits ==
    <<"0", "1", "2", "3", "4", "5", "6", "7", "8", "9",
      "A", "B", "C", "D", "E", "F">>

HexValue(d) == CHOOSE v \in 0..15 : HexDigits[v + 1] = d

RECURSIVE HexNumber(_)
\* the number a string of hexadecimal digits stands for
HexNumber(digits) ==
    IF Len(digits) = 0 THEN 0
    ELSE 16 * HexNumber(SubSeq(digits, 1, Len(digits) - 1))
         + HexValue(SubSeq(digits, Len(digits), Len(digits)))

\* ord(c)
CodePoint(c) == HexNumber(SubSeq(c, 3, Len(c)))

\* whether c is a character outside ASCII
NonAscii(c) == Len(c) > 1

\* a lone surrogate, which the utf-8 encoder refuses (UnicodeEncodeError)
IsSurrogate(c) == NonAscii(c) /\ CodePoint(c) \in 55296..57343

\* whether f.write can encode the text
Encodable(text) == \A i \in 1..Len(text) : ~ IsSurrogate(text[i])

\* a byte above 0x7F
ByteName(b) == "0x" \o HexDigits[(b \div 16) + 1] \o HexDigits[(b % 16) + 1]

\* c.encode("utf-8"): one to four bytes
Utf8Char(c) ==
    IF ~ NonAscii(c) THEN <<c>>
    ELSE LET cp == CodePoint(c)
         IN  IF cp < 2048
             THEN << ByteName(192 + (cp \div 64)), ByteName(128 + (cp % 64)) >>
             ELSE IF cp < 65536
             THEN << ByteName(224 + (cp \div 4096)),
                     ByteName(128 + ((cp \div 64) % 64)),
                     ByteName(128 + (cp % 64)) >>
             ELSE << ByteName(240 + (cp \div 262144)),
                     ByteName(128 + ((cp \div 4096) % 64)),
                     ByteName(128 + ((cp \div 64) % 64)),
                     ByteName(128 + (cp % 64)) >>

(***************************************************************************)
(* SubtitleGenerator._format_timestamp                                     *)
(*                                                                         *)
(* A float number of seconds is written Sec(num, den): the IEEE double    *)
(* nearest to the rational num/den, as the literal or the division gives   *)
(* it.  Line 17 multiplies that double by 1000.0, which rounds the product *)
(* to a double again, and round() rounds the result half to even.          *)
(***************************************************************************)
MsPerHour == 3600000
MsPerMinute == 60000
MsPerSecond == 1000

Sec(num, den) == [num |-> num, den |-> den]

\* int(seconds * 1000.0) in place of round
RoundMsTruncated(seconds) ==
    (seconds.num \div seconds.den) * MsPerSecond
    + ((seconds.num % seconds.den) * MsPerSecond) \div seconds.den

RECURSIVE FloorLog2(_)
\* floor(log2(n)) for n >= 1
FloorLog2(n) == IF n < 2 THEN 0 ELSE 1 + FloorLog2(n \div 2)

RECURSIVE Pow2(_)
Pow2(e) == IF e = 0 THEN 1 ELSE 2 * Pow2(e - 1)

RECURSIVE ShiftsToReach(_, _)
\* the least t >= 1 with n * 2^t >= den, for 0 < n < den
ShiftsToReach(n, den) ==
    IF 2 * n >= den THEN 1 ELSE 1 + ShiftsToReach(2 * n, den)

\* the binary exponent b of the double nearest to num/den > 0:
\* 2^b <= num/den < 2^(b+1)
BinaryExponent(num, den) ==
    IF num >= den THEN FloorLog2(num \div den)
    ELSE 0 - ShiftsToReach(num, den)

RECURSIVE Pow2Mod(_, _)
\* 2^e modulo den, by squaring
Pow2Mod(e, den) ==
    IF e = 0 THEN 1 % den
    ELSE LET h == Pow2Mod(e \div 2, den)
         IN  (((h * h) % den) * (IF e % 2 = 1 THEN 2 ELSE 1)) % den

\* the long division of num by den carried on for s more binary digits from
\* the remainder r: the remainder left, r * 2^s modulo den, and the last
\* digit of the quotient, which the doubling of the remainder before gives
DivideBits(r, bit, den, s) ==
    IF s <= 0 THEN [rem |-> r, bit |-> bit]
    ELSE [rem |-> (r * Pow2Mod(s, den)) % den,
          bit |-> IF 2 * ((r * Pow2Mod(s - 1, den)) % den) >= den
                  THEN 1 ELSE 0]

\* the error of the double nearest to num/den, as a multiple of
\* 1 / (den * 2^s), where s = 52 - b makes the 53-bit significand an
\* integer: the division rounds to nearest, ties to the even significand
FloatError(num, den) ==
    LET s == 52 - BinaryExponent(num, den)
        q == DivideBits(num % den, (num \div den) % 2, den, s)
    IN  IF 2 * q.rem < den \/ (2 * q.rem = den /\ q.bit = 0)
        THEN 0 - q.rem
        ELSE den - q.rem

\* round(seconds * 1000.0) when num/den * 1000 is exactly k + 1/2.  The
\* double k + 1/2 has an even significand and neighbours 2^(a-52) above and
\* below it (2^(a-53) below, when it is the power of two 1/2); the product
\* of the double seconds and 1000 is k + 1/2 plus 1000 times the error of
\* seconds, and rounds to k + 1/2 unless it lies beyond the middle to a
\* neighbour.  Below k + 1/2 round() gives k, above it k + 1, at it the
\* even one of the two.
RoundTie(seconds, k) ==
    LET b == BinaryExponent(seconds.num, seconds.den)
        a == FloorLog2(2 * k + 1) - 1
        err == 2 * MsPerSecond * FloatError(seconds.num, seconds.den)
        half == seconds.den * Pow2(a - b)
    IN  IF err > half THEN k + 1
        ELSE IF (IF k = 0 THEN 2 * err ELSE err) < 0 - half THEN k
        ELSE IF k % 2 = 0 THEN k ELSE k + 1

\* round(seconds * 1000.0) for seconds >= 0.  The whole seconds are scaled
\* apart from the fraction to keep the products small.  When num/den * 1000
\* is not k + 1/2 it is at least 1/(2 * den) away from it, more than the
\* two roundings move it, and round() gives the nearest integer.
RoundMs(seconds) ==
    LET whole == seconds.num \div seconds.den
        n == (seconds.num % seconds.den) * MsPerSecond
        q == n \div seconds.den
        r2 == 2 * (n % seconds.den)
        base == whole * MsPerSecond + q
    IN  IF r2 < seconds.den THEN base
        ELSE IF r2 > seconds.den THEN base + 1
        ELSE RoundTie(seconds, base)

DigitChars == <<"0", "1", "2", "3", "4", "5", "6", "7", "8", "9">>

RECURSIVE Decimal(_)
\* str(n) for n >= 0
Decimal(n) ==
    IF n < 10 THEN <<DigitChars[n + 1]>>
    ELSE Decimal(n \div 10) \o <<DigitChars[(n % 10) + 1]>>

\* f"{n:0{width}d}": at least width digits
ZeroPad(n, width) ==
    LET d == Decimal(n)
    IN  IF Len(d) >= width THEN d
        ELSE [i \in 1..width |-> IF i <= width - Len(d) THEN "0"
                                 ELSE d[i - (width - Len(d))]]

\* the fields with the minutes taken from the whole value, the hours not
\* subtracted first
TimestampFieldsDrift(ms) ==
    LET hours == ms \div MsPerHour
        minutes == ms \div MsPerMinute
        ms2 == ms - minutes * MsPerMinute
        secs == ms2 \div MsPerSecond
        ms3 == ms2 - secs * MsPerSecond
    IN  [hours |-> hours, minutes |-> minutes, seconds |-> secs,
         milliseconds |-> ms3]

\* the four fields _format_timestamp computes from the rounded milliseconds
TimestampFields(ms) ==
    LET hours == ms \div MsPerHour
        ms1 == ms - hours * MsPerHour
        minutes == ms1 \div MsPerMinute
        ms2 == ms1 - minutes * MsPerMinute
        secs == ms2 \div MsPerSecond
        ms3 == ms2 - secs * MsPerSecond
    IN  [hours |-> hours, minutes |-> minutes, seconds |-> secs,
         milliseconds |-> ms3]

\* what a call gives in place of a value when the assert of line 16 raises
Raised == "AssertionError"

\* line 16: assert seconds >= 0
NonNegative(seconds) == seconds.num >= 0

\* _format_timestamp(seconds, decimal_marker)
FormatTimestamp(seconds, decimal_marker) ==
    IF ~ NonNegative(seconds) THEN Raised
    ELSE LET f == TimestampFields(RoundMs(seconds))
         IN  ZeroPad(f.hours, 2) \o <<":">> \o ZeroPad(f.minutes, 2)
             \o <<":">> \o ZeroPad(f.seconds, 2) \o <<decimal_marker>>
             \o ZeroPad(f.milliseconds, 3)

(***************************************************************************)
(* SubtitleGenerator.write_vtt / write_srt: the text each writes.          *)
(* A segment is [start, end, text].                                        *)
(***************************************************************************)
Arrow == <<"-", "-", ">">>
ShortArrow == <<"-", ">">>
TimingSep == <<" ">> \o Arrow \o <<" ">>
VttHeader == <<"W", "E", "B", "V", "T", "T", "\n", "\n">>

\* segment['text'].strip().replace('-->', '->')
CueText(segment) == Replace(Strip(segment.text), Arrow, ShortArrow)

\* f"{start} --> {end}"
TimingLine(segment, decimal_marker) ==
    FormatTimestamp(segment.start, decimal_marker) \o TimingSep
    \o FormatTimestamp(segment.end, decimal_marker)

\* the block write_vtt writes for one segment
VttCue(segment) ==
    TimingLine(segment, ".") \o <<"\n">> \o CueText(segment) \o <<"\n", "\n">>

\* the block write_srt writes for segment number i
SrtCue(i, segment) ==
    Decimal(i) \o <<"\n">> \o TimingLine(segment, ",") \o <<"\n">>
    \o CueText(segment) \o <<"\n", "\n">>

\* the number of segments a writer writes: all of them, or those before the
\* first one for which _format_timestamp raises (lines 30-31, 38-39), which
\* ends the loop before line 33 or 41 writes that segment, or for which
\* f.write raises because the text cannot be encoded
WrittenSegments(transcript) ==
    LET bad == {i \in 1..Len(transcript) :
                  \/ FormatTimestamp(transcript[i].start, ".") = Raised
                  \/ FormatTimestamp(transcript[i].end, ".") = Raised
                  \/ ~ Encodable(CueText(transcript[i]))}
    IN  IF bad = {} THEN Len(transcript)
        ELSE (CHOOSE i \in bad : \A k \in bad : i <= k) - 1

\* whether write_vtt / write_srt ends by the exception of line 16 or of
\* the encoder
WriterRaises(transcript) == WrittenSegments(transcript) < Len(transcript)

\* the content of the file write_vtt leaves: the file is closed, and its
\* buffer flushed, also when the loop ends by an exception
VttText(transcript) ==
    VttHeader
    \o Concat([i \in 1..WrittenSegments(transcript) |-> VttCue(transcript[i])])

\* enumerate(self.transcript, start=1)
EnumerateStart == 1

\* write_srt with enumerate's default start
SrtTextFromZero(transcript) ==
    Concat([i \in 1..WrittenSegments(transcript) |->
               SrtCue(i - 1, transcript[i])])

\* the content of the file write_srt leaves
SrtText(transcript) ==
    Concat([i \in 1..WrittenSegments(transcript) |->
               SrtCue(i - 1 + EnumerateStart, transcript[i])])

(***************************************************************************)
(* encoding="utf-8" of lines 27 and 36: the bytes the file object makes of *)
(* what is written.  The files hold bytes: an ASCII character is its one   *)
(* byte, and a byte above 0x7F is the string of its value, "0xC3".         *)
(***************************************************************************)
\* the bytes of a text
Utf8(text) == Concat([i \in 1..Len(text) |-> Utf8Char(text[i])])

(***************************************************************************)
(* VideoProcessor: class constants and path helpers.                       *)
(***************************************************************************)
VIDEO_SRC_DIR == <<"v", "i", "d", "e", "o", "_", "s", "r", "c">>
OUTPUT_DIR == <<"r", "e", "s", "u", "l", "t">>
SUPPORTED_EXTENSIONS ==
    { <<".", "m", "p", "4">>, <<".", "m", "o", "v">>,
      <<".", "a", "v", "i">>, <<".", "m", "k", "v">> }
VttExt == <<".", "v", "t", "t">>
SrtExt == <<".", "s", "r", "t">>

\* os.path.join(directory, name) for a relative name
PathJoin(directory, name) == directory \o <<"/">> \o name

\* os.path.basename(path)
Basename(path) == SubSeq(path, RFind(path, "/") + 1, Len(path))

\* os.path.splitext(p)[0]: cut at the last dot of the last component, unless
\* that component has nothing but dots before it
SplitextRoot(p) ==
    LET sepIndex == RFind(p, "/")
        dotIndex == RFind(p, ".")
    IN  IF /\ dotIndex > sepIndex
           /\ \E k \in (sepIndex + 1)..(dotIndex - 1) : p[k] # "."
        THEN SubSeq(p, 1, dotIndex - 1)
        ELSE p

\* VideoProcessor._get_filename
GetFilename(path) == SplitextRoot(Basename(path))

\* f.endswith(self.SUPPORTED_EXTENSIONS)
IsVideo(f) == \E ext \in SUPPORTED_EXTENSIONS : EndsWith(f, ext)

RECURSIVE SelectVideos(_)
\* the list _get_video_files yields for a directory listing
SelectVideos(names) ==
    IF names = <<>> THEN <<>>
    ELSE (IF IsVideo(Head(names))
          THEN <<PathJoin(VIDEO_SRC_DIR, Head(names))>> ELSE <<>>)
         \o SelectVideos(Tail(names))

\* vtt_path / srt_path of _process_single_video
VttPath(video_path) == PathJoin(OUTPUT_DIR, GetFilename(video_path) \o VttExt)
SrtPath(video_path) == PathJoin(OUTPUT_DIR, GetFilename(video_path) \o SrtExt)

(***************************************************************************)
(* The environment the model draws from.                                   *)
(***************************************************************************)
\* file names the source directory may hold
Names ==
    { <<"a", ".", "m", "p", "4">>, <<"a", ".", "m", "o", "v">>,
      <<"b", ".", "m", "k", "v">>, <<"n", ".", "t", "x", "t">> }

\* what os.listdir may return: up to MaxFiles distinct names, in any order
Listings ==
    UNION { { l \in [1..n -> Names] : \A i, k \in 1..n : i # k => l[i] # l[k] }
            : n \in 0..MaxFiles }

Seg(start, end, text) == [start |-> start, end |-> end, text |-> text]

\* what model.transcribe may return in the batch specification
TranscriptHello ==
    << Seg(Sec(0, 1), Sec(6, 5), <<" ", "H", "i">>),
       Seg(Sec(6, 5), Sec(5, 2), <<"U+3000", "7", "U+00E9", "U+3042", "U+1F600", "\f">>) >>
TranscriptArrow ==
    << Seg(Sec(19, 16), Sec(119999, 2000), <<"-", "-", ">", "x">>) >>
Transcripts == {TranscriptHello, TranscriptArrow}

\* warnings.filters before the run: the interpreter's own entries
AmbientFilters == <<"ambient">>

(***************************************************************************)
(* State.                                                                  *)
(***************************************************************************)
VARIABLES
    mainPc,       \* where run() is
    setupOk,      \* lines 120-121 return: ffmpeg put on the PATH, OUTPUT_DIR made
    dirExists,    \* os.path.isdir(VIDEO_SRC_DIR)
    listdirOk,    \* os.listdir(VIDEO_SRC_DIR) returns (the directory is readable)
    listing,      \* os.listdir(VIDEO_SRC_DIR)
    cpu_count,    \* os.cpu_count()
    corrupt,      \* names of the files ffmpeg cannot decode
    video_files,  \* run's list of discovered paths
    model,        \* self.model: 0 is None, k > 0 the k-th loaded instance
    loads,        \* number of whisper.load_model calls made
    futures,      \* run's dict: future number -> path it was submitted with
    queue,        \* the executor's work queue (future numbers, FIFO)
    jobPc,        \* per future: where _process_single_video is / how it ended
    audio_data,   \* per future: the local audio_data
    usedModel,    \* per future: the self.model it called transcribe on
    result,       \* per future: the segments transcribe returned
    fs,           \* output files: path -> content
    filters,      \* warnings.filters, front first
    collected,    \* futures the as_completed loop has taken
    errorLog      \* the "unexpected error" lines printed by run

\* what the run finds and does not change
env == << setupOk, dirExists, listdirOk, listing, cpu_count, corrupt >>

vars == << mainPc, setupOk, dirExists, listdirOk, listing, cpu_count, corrupt,
           video_files, model, loads, futures,
           queue, jobPc, audio_data, usedModel, result, fs, filters,
           collected, errorLog >>

Jobs == 1..Len(futures)

\* job states in which a pool thread is executing the job
ActivePcs == {"extract", "suppress", "suppress_insert", "call", "transcribe",
              "restore", "restore_insert", "write_vtt", "vtt_open",
              "vtt_close", "write_srt", "srt_open", "srt_close"}
\* job states in which the future is done
TerminalPcs == {"returned", "raised", "exited"}

\* how a failing call ends the job: by an Exception, or by a BaseException
\* that is none (SystemExit); the pool stores either in the future
RaiseKinds == {"raised", "exited"}

Running == {j \in Jobs : jobPc[j] \in ActivePcs}

\* max_workers of ThreadPoolExecutor(): min(32, (os.cpu_count() or 1) + 4)
MaxWorkers == IF cpu_count + 4 < 32 THEN cpu_count + 4 ELSE 32

\* filters.remove(item) of warnings._add_filter: the first equal entry goes,
\* and nothing when there is none (the ValueError is caught)
RemoveFirst(fl, action) ==
    LET hits == {i \in 1..Len(fl) : fl[i] = action}
    IN  IF hits = {} THEN fl
        ELSE LET i == CHOOSE k \in hits : \A m \in hits : k <= m
             IN  SubSeq(fl, 1, i - 1) \o SubSeq(fl, i + 1, Len(fl))

\* filters.insert(0, item) of warnings._add_filter
InsertFront(fl, action) == <<action>> \o fl

\* warnings.filterwarnings(action) run without interruption.  The list is
\* process-wide, and another thread may run between the remove and the
\* insert: the jobs take the two as separate steps.
AddFilter(fl, action) == InsertFront(RemoveFirst(fl, action), action)

\* whether warnings are currently ignored: the front entry decides, since
\* both entries the code inserts match every warning
Suppressed == filters # <<>> /\ Head(filters) = "ignore"

\* an output file an earlier run left: longer than anything this run writes
Repeat(text, n) ==
    [i \in 1..(n * Len(text)) |-> text[((i - 1) % Len(text)) + 1]]

OldText == Repeat(<<"O", "L", "D">>, OldRepeats)

\* result/a.vtt and result/a.srt of an earlier run
OldOutputs ==
    (PathJoin(OUTPUT_DIR, <<"a">> \o VttExt) :> OldText)
    @@ (PathJoin(OUTPUT_DIR, <<"a">> \o SrtExt) :> OldText)

\* the output files when run() starts: none, or those of an earlier run
StartFiles == {<<>>, OldOutputs}

\* the names of a listing
NamesIn(l) == {l[i] : i \in 1..Len(l)}

\* What run() starts in.  The setup works or not; the source directory is
\* missing, or is there and can or cannot be listed; it holds up to MaxFiles
\* of Names, in any order; ffmpeg can decode any of them or not; the output
\* directory is empty or holds the files of an earlier run.
Init ==
    /\ mainPc = "start"
    /\ setupOk \in BOOLEAN
    /\ cpu_count \in 1..MaxCpus
    /\ dirExists \in BOOLEAN
    /\ listdirOk \in BOOLEAN
    /\ listing \in Listings
    /\ corrupt \in SUBSET NamesIn(listing)
    /\ ~ dirExists => (~ listdirOk /\ listing = <<>>)
    /\ fs \in StartFiles
    /\ video_files = <<>>
    /\ model = 0
    /\ loads = 0
    /\ futures = <<>>
    /\ queue = <<>>
    /\ jobPc = <<>>
    /\ audio_data = <<>>
    /\ usedModel = <<>>
    /\ result = <<>>
    /\ filters = AmbientFilters
    /\ collected = {}
    /\ errorLog = {}

(***************************************************************************)
(* run(), lines 119-142.                                                   *)
(***************************************************************************)
\* list(self._get_video_files())
GetVideoFiles == IF dirExists THEN SelectVideos(listing) ELSE <<>>

\* lines 120-121: static_ffmpeg.add_paths() or os.makedirs raises (the
\* output path is taken by a file, say), and run() ends by the exception
SetupRaises ==
    /\ mainPc = "start"
    /\ ~ setupOk
    /\ mainPc' = "crashed"
    /\ UNCHANGED << env, video_files, model, loads,
                    futures, queue, jobPc, audio_data, usedModel, result, fs,
                    filters, collected, errorLog >>

\* lines 120-123: the setup returns and os.listdir (line 65) raises, which
\* run() does not catch
DiscoverRaises ==
    /\ mainPc = "start"
    /\ setupOk
    /\ dirExists
    /\ ~ listdirOk
    /\ mainPc' = "crashed"
    /\ UNCHANGED << env, video_files, model, loads,
                    futures, queue, jobPc, audio_data, usedModel, result, fs,
                    filters, collected, errorLog >>

\* lines 120-126: the setup returns; discovery, and the early return when
\* nothing was found
Discover ==
    /\ mainPc = "start"
    /\ setupOk
    /\ dirExists => listdirOk
    /\ video_files' = GetVideoFiles
    /\ mainPc' = IF video_files' = <<>> THEN "no_videos" ELSE "load"
    /\ UNCHANGED << env, model, loads, futures, queue, jobPc,
                    audio_data, usedModel, result, fs, filters, collected,
                    errorLog >>

\* the guard of _load_model, inverted
NeedsLoadInverted == model # 0

\* the guard of _load_model
NeedsLoad == model = 0

\* line 128, _load_model returning
LoadModel ==
    /\ mainPc = "load"
    /\ IF NeedsLoad
       THEN /\ loads' = loads + 1
            /\ model' = loads + 1
       ELSE UNCHANGED << model, loads >>
    /\ mainPc' = "submit"
    /\ UNCHANGED << env, video_files, futures, queue, jobPc,
                    audio_data, usedModel, result, fs, filters, collected,
                    errorLog >>

\* line 128, whisper.load_model raising: run() propagates it
LoadModelRaises ==
    /\ mainPc = "load"
    /\ NeedsLoad
    /\ loads' = loads + 1
    /\ mainPc' = "crashed"
    /\ UNCHANGED << env, video_files, model, futures, queue,
                    jobPc, audio_data, usedModel, result, fs, filters,
                    collected, errorLog >>

\* line 134: one executor.submit of the dict comprehension
Submit ==
    /\ mainPc = "submit"
    /\ LET j == Len(futures) + 1
       IN  /\ futures' = Append(futures, video_files[j])
           /\ queue' = Append(queue, j)
           /\ jobPc' = Append(jobPc, "queued")
           /\ audio_data' = Append(audio_data, "unset")
           /\ usedModel' = Append(usedModel, 0)
           /\ result' = Append(result, <<>>)
           /\ mainPc' = IF j = Len(video_files) THEN "collect" ELSE "submit"
    /\ UNCHANGED << env, video_files, model, loads, fs,
                    filters, collected, errorLog >>

\* the path line 139 looks up for a future
ReportedPath(j) == futures[j]

\* lines 135-140: as_completed hands over a finished future, result() is
\* called on it, and an Exception is caught and reported
Collect(j) ==
    /\ mainPc = "collect"
    /\ j \in Jobs \ collected
    /\ jobPc[j] \in {"returned", "raised"}
    /\ collected' = collected \cup {j}
    /\ errorLog' = IF jobPc[j] = "raised"
                   THEN errorLog \cup
                        {[future |-> j, video_path |-> ReportedPath(j),
                          name |-> GetFilename(ReportedPath(j))]}
                   ELSE errorLog
    /\ UNCHANGED << mainPc, env, video_files, model, loads,
                    futures, queue, jobPc, audio_data, usedModel, result, fs,
                    filters >>

\* lines 137-138: result() re-raises what the job ended by; `except
\* Exception` does not catch a BaseException that is none, and it leaves the
\* loop
CollectReraises(j) ==
    /\ mainPc = "collect"
    /\ j \in Jobs \ collected
    /\ jobPc[j] = "exited"
    /\ mainPc' = "unwind"
    /\ UNCHANGED << env, video_files, model, loads, futures, queue, jobPc,
                    audio_data, usedModel, result, fs, filters, collected,
                    errorLog >>

\* line 133: the with-block is left by the exception; the executor's
\* shutdown(wait=True) lets the pool run every submitted job to its end, and
\* the exception leaves run() before line 142
RunRaises ==
    /\ mainPc = "unwind"
    /\ queue = <<>>
    /\ Running = {}
    /\ mainPc' = "crashed"
    /\ UNCHANGED << env, video_files, model, loads, futures, queue, jobPc,
                    audio_data, usedModel, result, fs, filters, collected,
                    errorLog >>

\* run() going on as soon as a first future was taken, without the wait
AllDoneFirstCompleted == collected # {}

\* as_completed is exhausted and the executor's shutdown(wait=True) returned
AllDone ==
    /\ collected = Jobs
    /\ queue = <<>>
    /\ Running = {}

\* line 142
JobFinished ==
    /\ mainPc = "collect"
    /\ AllDone
    /\ mainPc' = "finished"
    /\ UNCHANGED << env, video_files, model, loads, futures,
                    queue, jobPc, audio_data, usedModel, result, fs, filters,
                    collected, errorLog >>

(***************************************************************************)
(* The pool's threads and _process_single_video, lines 97-117.             *)
(***************************************************************************)
\* a pool thread takes the oldest queued work item and enters
\* _process_single_video and _extract_audio
WorkerStart(j) ==
    /\ j \in Jobs
    /\ queue # <<>>
    /\ j = Head(queue)
    /\ Cardinality(Running) < MaxWorkers
    /\ queue' = Tail(queue)
    /\ jobPc' = [jobPc EXCEPT ![j] = "extract"]
    /\ UNCHANGED << mainPc, env, video_files, model, loads,
                    futures, audio_data, usedModel, result, fs, filters,
                    collected, errorLog >>

\* lines 84-85: ffmpeg exits with status 0
ExtractOk(j) ==
    /\ j \in Jobs
    /\ jobPc[j] = "extract"
    /\ Basename(futures[j]) \notin corrupt
    /\ audio_data' = [audio_data EXCEPT ![j] = "buffer"]
    /\ jobPc' = [jobPc EXCEPT ![j] = "suppress"]
    /\ UNCHANGED << mainPc, env, video_files, model, loads,
                    futures, queue, usedModel, result, fs, filters, collected,
                    errorLog >>

\* how the job ends when _extract_audio returned None (lines 99-100)
AfterExtractFailure == "returned"

\* lines 86-89 and 99-100: ffmpeg exits non-zero, None comes back, the job
\* returns
ExtractFails(j) ==
    /\ j \in Jobs
    /\ jobPc[j] = "extract"
    /\ audio_data' = [audio_data EXCEPT ![j] = "None"]
    /\ jobPc' = [jobPc EXCEPT ![j] = AfterExtractFailure]
    /\ UNCHANGED << mainPc, env, video_files, model, loads,
                    futures, queue, usedModel, result, fs, filters, collected,
                    errorLog >>

\* lines 84-88: an exception other than CalledProcessError leaves
\* _extract_audio (no ffmpeg to run, or stderr that line 88 cannot decode),
\* and the job ends by it
ExtractRaises(j) ==
    /\ j \in Jobs
    /\ jobPc[j] = "extract"
    /\ \E kind \in RaiseKinds : jobPc' = [jobPc EXCEPT ![j] = kind]
    /\ UNCHANGED << mainPc, env, video_files, model, loads,
                    futures, queue, audio_data, usedModel, result, fs,
                    filters, collected, errorLog >>

\* line 105, first half: filterwarnings("ignore") removes an equal entry
SuppressRemove(j) ==
    /\ j \in Jobs
    /\ jobPc[j] = "suppress"
    /\ filters' = RemoveFirst(filters, "ignore")
    /\ jobPc' = [jobPc EXCEPT ![j] = "suppress_insert"]
    /\ UNCHANGED << mainPc, env, video_files, model, loads,
                    futures, queue, audio_data, usedModel, result, fs,
                    collected, errorLog >>

\* line 105, second half: filterwarnings("ignore") inserts its entry
SuppressInsert(j) ==
    /\ j \in Jobs
    /\ jobPc[j] = "suppress_insert"
    /\ filters' = InsertFront(filters, "ignore")
    /\ jobPc' = [jobPc EXCEPT ![j] = "call"]
    /\ UNCHANGED << mainPc, env, video_files, model, loads,
                    futures, queue, audio_data, usedModel, result, fs,
                    collected, errorLog >>

\* line 106: self.model.transcribe is entered (on None the attribute lookup
\* raises)
TranscribeCall(j) ==
    /\ j \in Jobs
    /\ jobPc[j] = "call"
    /\ IF model = 0
       THEN /\ jobPc' = [jobPc EXCEPT ![j] = "raised"]
            /\ UNCHANGED usedModel
       ELSE /\ jobPc' = [jobPc EXCEPT ![j] = "transcribe"]
            /\ usedModel' = [usedModel EXCEPT ![j] = model]
    /\ UNCHANGED << mainPc, env, video_files, model, loads,
                    futures, queue, audio_data, result, fs, filters,
                    collected, errorLog >>

\* line 106: transcribe returns its segments
TranscribeReturns(j, t) ==
    /\ j \in Jobs
    /\ jobPc[j] = "transcribe"
    /\ result' = [result EXCEPT ![j] = t]
    /\ jobPc' = [jobPc EXCEPT ![j] = "restore"]
    /\ UNCHANGED << mainPc, env, video_files, model, loads,
                    futures, queue, audio_data, usedModel, fs, filters,
                    collected, errorLog >>

\* line 106: transcribe raises; line 107 is skipped
TranscribeRaises(j) ==
    /\ j \in Jobs
    /\ jobPc[j] = "transcribe"
    /\ \E kind \in RaiseKinds : jobPc' = [jobPc EXCEPT ![j] = kind]
    /\ UNCHANGED << mainPc, env, video_files, model, loads,
                    futures, queue, audio_data, usedModel, result, fs,
                    filters, collected, errorLog >>

\* line 107, first half: filterwarnings("default") removes an equal entry
RestoreRemove(j) ==
    /\ j \in Jobs
    /\ jobPc[j] = "restore"
    /\ filters' = RemoveFirst(filters, "default")
    /\ jobPc' = [jobPc EXCEPT ![j] = "restore_insert"]
    /\ UNCHANGED << mainPc, env, video_files, model, loads,
                    futures, queue, audio_data, usedModel, result, fs,
                    collected, errorLog >>

\* line 107: filterwarnings("default") inserts its entry
RestoreWarnings(j) ==
    /\ j \in Jobs
    /\ jobPc[j] = "restore_insert"
    /\ filters' = InsertFront(filters, "default")
    /\ jobPc' = [jobPc EXCEPT ![j] = "write_vtt"]
    /\ UNCHANGED << mainPc, env, video_files, model, loads,
                    futures, queue, audio_data, usedModel, result, fs,
                    collected, errorLog >>

\* the transcript line 109 hands to the SubtitleGenerator of job j
GeneratorTranscript(j) == result[j]

\* The files hold bytes.
\* open(path, "w") on the files: the file exists and is empty
Truncate(files, path) == (path :> <<>>) @@ files

\* bytes written at the start of a file that holds old: what the file held
\* beyond them stays (another writer of the same path put it there)
Overlay(old, text) == text \o SubSeq(old, Len(text) + 1, Len(old))

\* the flush of a buffer that was filled from the start of the file.  The
\* texts of the model are shorter than the buffer of a file object, so all
\* of a writer's text reaches the file at once, when the file is closed.
Flush(files, path, text) == (path :> Overlay(files[path], text)) @@ files

\* line 27: open(file_path, "w") creates the file or empties it
OpenVtt(j) ==
    /\ j \in Jobs
    /\ jobPc[j] = "write_vtt"
    /\ fs' = Truncate(fs, VttPath(video_files[j]))
    /\ jobPc' = [jobPc EXCEPT ![j] = "vtt_open"]
    /\ UNCHANGED << mainPc, env, video_files, model, loads,
                    futures, queue, audio_data, usedModel, result, filters,
                    collected, errorLog >>

\* line 27: open() raises
OpenVttRaises(j) ==
    /\ j \in Jobs
    /\ jobPc[j] = "write_vtt"
    /\ \E kind \in RaiseKinds : jobPc' = [jobPc EXCEPT ![j] = kind]
    /\ UNCHANGED << mainPc, env, video_files, model, loads,
                    futures, queue, audio_data, usedModel, result, fs,
                    filters, collected, errorLog >>

\* lines 28-33: the f.write calls fill the buffer of the file object, up to
\* the segment whose timestamp raises; nothing reaches the file yet
BufferVtt(j) ==
    /\ j \in Jobs
    /\ jobPc[j] = "vtt_open"
    /\ jobPc' = [jobPc EXCEPT ![j] = "vtt_close"]
    /\ UNCHANGED << mainPc, env, video_files, model, loads,
                    futures, queue, audio_data, usedModel, result, fs,
                    filters, collected, errorLog >>

\* the with-block of write_vtt is left and the flush fails before anything
\* reached the file
CloseVttRaises(j) ==
    /\ j \in Jobs
    /\ jobPc[j] = "vtt_close"
    /\ \E kind \in RaiseKinds : jobPc' = [jobPc EXCEPT ![j] = kind]
    /\ UNCHANGED << mainPc, env, video_files, model, loads,
                    futures, queue, audio_data, usedModel, result, fs,
                    filters, collected, errorLog >>

\* the with-block of write_vtt is left and the flush fails after ShortWrite
\* bytes reached the file
ShortWriteVtt(j) ==
    /\ j \in Jobs
    /\ jobPc[j] = "vtt_close"
    /\ LET text == Utf8(VttText(GeneratorTranscript(j)))
       IN  /\ ShortWrite <= Len(text)
           /\ fs' = Flush(fs, VttPath(video_files[j]),
                          SubSeq(text, 1, ShortWrite))
    /\ \E kind \in RaiseKinds : jobPc' = [jobPc EXCEPT ![j] = kind]
    /\ UNCHANGED << mainPc, env, video_files, model, loads,
                    futures, queue, audio_data, usedModel, result, filters,
                    collected, errorLog >>

\* the with-block of write_vtt is left: the buffer is flushed to the file
\* and the file closed; a raise of _format_timestamp goes on
CloseVtt(j) ==
    /\ j \in Jobs
    /\ jobPc[j] = "vtt_close"
    /\ fs' = Flush(fs, VttPath(video_files[j]),
                   Utf8(VttText(GeneratorTranscript(j))))
    /\ jobPc' = [jobPc EXCEPT ![j] =
                    IF WriterRaises(GeneratorTranscript(j))
                    THEN "raised" ELSE "write_srt"]
    /\ UNCHANGED << mainPc, env, video_files, model, loads,
                    futures, queue, audio_data, usedModel, result, filters,
                    collected, errorLog >>

\* line 36: open(file_path, "w") creates the file or empties it
OpenSrt(j) ==
    /\ j \in Jobs
    /\ jobPc[j] = "write_srt"
    /\ fs' = Truncate(fs, SrtPath(video_files[j]))
    /\ jobPc' = [jobPc EXCEPT ![j] = "srt_open"]
    /\ UNCHANGED << mainPc, env, video_files, model, loads,
                    futures, queue, audio_data, usedModel, result, filters,
                    collected, errorLog >>

\* line 36: open() raises
OpenSrtRaises(j) ==
    /\ j \in Jobs
    /\ jobPc[j] = "write_srt"
    /\ \E kind \in RaiseKinds : jobPc' = [jobPc EXCEPT ![j] = kind]
    /\ UNCHANGED << mainPc, env, video_files, model, loads,
                    futures, queue, audio_data, usedModel, result, fs,
                    filters, collected, errorLog >>

\* lines 37-41: the f.write calls fill the buffer of the file object, up to
\* the segment whose timestamp raises; nothing reaches the file yet
BufferSrt(j) ==
    /\ j \in Jobs
    /\ jobPc[j] = "srt_open"
    /\ jobPc' = [jobPc EXCEPT ![j] = "srt_close"]
    /\ UNCHANGED << mainPc, env, video_files, model, loads,
                    futures, queue, audio_data, usedModel, result, fs,
                    filters, collected, errorLog >>

\* the with-block of write_srt is left and the flush fails before anything
\* reached the file
CloseSrtRaises(j) ==
    /\ j \in Jobs
    /\ jobPc[j] = "srt_close"
    /\ \E kind \in RaiseKinds : jobPc' = [jobPc EXCEPT ![j] = kind]
    /\ UNCHANGED << mainPc, env, video_files, model, loads,
                    futures, queue, audio_data, usedModel, result, fs,
                    filters, collected, errorLog >>

\* the with-block of write_srt is left and the flush fails after ShortWrite
\* bytes reached the file
ShortWriteSrt(j) ==
    /\ j \in Jobs
    /\ jobPc[j] = "srt_close"
    /\ LET text == Utf8(SrtText(GeneratorTranscript(j)))
       IN  /\ ShortWrite <= Len(text)
           /\ fs' = Flush(fs, SrtPath(video_files[j]),
                          SubSeq(text, 1, ShortWrite))
    /\ \E kind \in RaiseKinds : jobPc' = [jobPc EXCEPT ![j] = kind]
    /\ UNCHANGED << mainPc, env, video_files, model, loads,
                    futures, queue, audio_data, usedModel, result, filters,
                    collected, errorLog >>

\* the with-block of write_srt is left: the buffer is flushed to the file
\* and the file closed; the job returns (line 117), or a raise goes on
CloseSrt(j) ==
    /\ j \in Jobs
    /\ jobPc[j] = "srt_close"
    /\ fs' = Flush(fs, SrtPath(video_files[j]),
                   Utf8(SrtText(GeneratorTranscript(j))))
    /\ jobPc' = [jobPc EXCEPT ![j] =
                    IF WriterRaises(GeneratorTranscript(j))
                    THEN "raised" ELSE "returned"]
    /\ UNCHANGED << mainPc, env, video_files, model, loads,
                    futures, queue, audio_data, usedModel, result, filters,
                    collected, errorLog >>

\* future numbers a run can hand out: one per directory entry at most
JobIds == 1..MaxFiles

Next ==
    \/ SetupRaises
    \/ DiscoverRaises
    \/ Discover
    \/ LoadModel
    \/ LoadModelRaises
    \/ Submit
    \/ \E j \in JobIds : WorkerStart(j)
    \/ \E j \in JobIds : ExtractOk(j)
    \/ \E j \in JobIds : ExtractFails(j)
    \/ \E j \in JobIds : ExtractRaises(j)
    \/ \E j \in JobIds : SuppressRemove(j)
    \/ \E j \in JobIds : SuppressInsert(j)
    \/ \E j \in JobIds : TranscribeCall(j)
    \/ \E j \in JobIds, t \in Transcripts : TranscribeReturns(j, t)
    \/ \E j \in JobIds : TranscribeRaises(j)
    \/ \E j \in JobIds : RestoreRemove(j)
    \/ \E j \in JobIds : RestoreWarnings(j)
    \/ \E j \in JobIds : OpenVtt(j)
    \/ \E j \in JobIds : OpenVttRaises(j)
    \/ \E j \in JobIds : BufferVtt(j)
    \/ \E j \in JobIds : CloseVttRaises(j)
    \/ \E j \in JobIds : ShortWriteVtt(j)
    \/ \E j \in JobIds : CloseVtt(j)
    \/ \E j \in JobIds : OpenSrt(j)
    \/ \E j \in JobIds : OpenSrtRaises(j)
    \/ \E j \in JobIds : BufferSrt(j)
    \/ \E j \in JobIds : CloseSrtRaises(j)
    \/ \E j \in JobIds : ShortWriteSrt(j)
    \/ \E j \in JobIds : CloseSrt(j)
    \/ \E j \in JobIds : Collect(j)
    \/ \E j \in JobIds : CollectReraises(j)
    \/ RunRaises
    \/ JobFinished

Spec == Init /\ [][Next]_vars

(***************************************************************************)
(* What the claims speak of.                                               *)
(***************************************************************************)
\* the job's decode step failed
ExtractionFailed(j) == audio_data[j] = "None"

\* every step of the job succeeded and it returned
Succeeded(j) == jobPc[j] = "returned" /\ audio_data[j] = "buffer"

\* the job ended in a failure of its own
Failed(j) ==
    \/ jobPc[j] \in RaiseKinds
    \/ jobPc[j] = "returned" /\ ExtractionFailed(j)

\* both output files of the job's input exist
PairWritten(j) ==
    /\ VttPath(video_files[j]) \in DOMAIN fs
    /\ SrtPath(video_files[j]) \in DOMAIN fs

\* another discovered file has the same name without its extension
SharesStem(j) ==
    \E k \in 1..Len(video_files) :
        k # j /\ GetFilename(video_files[k]) = GetFilename(video_files[j])

\* both output files of the job hold what the writers make of its transcript
OwnPairIntact(j) ==
    /\ PairWritten(j)
    /\ fs[VttPath(video_files[j])] = Utf8(VttText(result[j]))
    /\ fs[SrtPath(video_files[j])] = Utf8(SrtText(result[j]))

\* the outcome the program records for a job: the state of its future
Outcome(j) ==
    CASE jobPc[j] = "returned" -> "Success"
      [] jobPc[j] \in RaiseKinds -> "Failure"
      [] OTHER -> "none"

\* jobs inside self.model.transcribe
InTranscribe == {j \in Jobs : jobPc[j] = "transcribe"}

\* jobs between their filterwarnings("ignore") and filterwarnings("default")
InSuppressedSection ==
    {j \in Jobs : jobPc[j] \in {"suppress_insert", "call", "transcribe",
                                "restore", "restore_insert"}}

\* job j ends in a failure in this step
FailsNow(j) ==
    /\ j \in Jobs
    /\ jobPc[j] \in ActivePcs
    /\ \/ jobPc'[j] \in RaiseKinds
       \/ jobPc'[j] = "returned" /\ audio_data'[j] = "None"

(***************************************************************************)
(* C1  Failure isolation, for any batch and any failing jobs.  No failure  *)
(* of a job ends run(); the reported errors are jobs that failed, each     *)
(* with the path it was submitted with; when the run has finished every    *)
(* job is terminal, every job whose own steps succeeded has both its files *)
(* with its own transcript in them, and every job that failed (its decode  *)
(* failed, or it raised) has been reported with its path.  The step in     *)
(* which a job fails changes nothing of its siblings, of their output      *)
(* files or of run().  And a run that collects its jobs reaches finished.  *)
(***************************************************************************)
FailureIsolationState ==
    /\ \A e \in errorLog :
          /\ e.future \in Jobs
          /\ Failed(e.future)
          /\ e.video_path = video_files[e.future]
    /\ futures # <<>> => mainPc \notin {"unwind", "crashed"}
    /\ mainPc = "finished" =>
          /\ \A j \in Jobs : jobPc[j] \in TerminalPcs
          /\ \A j \in Jobs : Succeeded(j) => OwnPairIntact(j)
          /\ \A j \in Jobs : Succeeded(j) \/ Failed(j)
          /\ {e.future : e \in errorLog} = {j \in Jobs : Failed(j)}

FailureIsolationStep ==
    \A j \in Jobs :
        FailsNow(j) =>
            /\ \A k \in Jobs \ {j} :
                   /\ jobPc'[k] = jobPc[k]
                   /\ \A path \in {VttPath(video_files[k]),
                                   SrtPath(video_files[k])} :
                          path \in DOMAIN fs =>
                              path \in DOMAIN fs' /\ fs'[path] = fs[path]
            /\ UNCHANGED << mainPc, queue, result, futures, collected >>

FailureIsolationFinishes == (mainPc = "collect") ~> (mainPc = "finished")

\* C1: all of the above
FailureIsolation ==
    /\ []FailureIsolationState
    /\ [][FailureIsolationStep]_vars
    /\ FailureIsolationFinishes

\* what does hold of a failure: a job that ended by an Exception was caught
\* and reported with its own path, a finished run has every job terminal and
\* both files of every job that succeeded, with its own transcript in them
\* unless another input has the same name without its extension; and the
\* step in which a job fails changes no sibling's state, nothing of run()
\* and no file but the two of the failing job's own input
FailureIsolationOfCaught ==
    /\ \A e \in errorLog :
          /\ e.future \in Jobs
          /\ jobPc[e.future] = "raised"
          /\ e.video_path = video_files[e.future]
    /\ mainPc = "finished" =>
          /\ \A j \in Jobs : jobPc[j] \in TerminalPcs
          /\ \A j \in Jobs : Succeeded(j) => PairWritten(j)
          /\ \A j \in Jobs : (Succeeded(j) /\ ~ SharesStem(j)) => OwnPairIntact(j)
          /\ {e.future : e \in errorLog} = {j \in Jobs : jobPc[j] = "raised"}

FailureIsolationOwnPaths ==
    \A j \in Jobs :
        FailsNow(j) =>
            /\ \A k \in Jobs \ {j} : jobPc'[k] = jobPc[k]
            /\ DOMAIN fs' = DOMAIN fs
            /\ \A path \in DOMAIN fs :
                   path \notin {VttPath(video_files[j]), SrtPath(video_files[j])}
                      => fs'[path] = fs[path]
            /\ UNCHANGED << mainPc, queue, result, futures, collected >>

FailureIsolationOfCaughtSteps ==
    []FailureIsolationOfCaught /\ [][FailureIsolationOwnPaths]_vars

(***************************************************************************)
(* C2  Completion ordering.  The run is finished only when every           *)
(* discovered file was dispatched and every job is terminal.               *)
(***************************************************************************)
CompletionOrdering ==
    mainPc = "finished" =>
        /\ Len(futures) = Len(video_files)
        /\ queue = <<>>
        /\ \A j \in Jobs : jobPc[j] \in TerminalPcs

\* a finished run with a job whose decode failed and a job that succeeded
CompletionOrderingWitness ==
    /\ mainPc = "finished"
    /\ \E i, j \in Jobs : ExtractionFailed(i) /\ Succeeded(j)

(***************************************************************************)
(* C3  Exactly one JobResult per discovered file.  When the run has        *)
(* finished there is exactly one future per discovered file, and its       *)
(* outcome is Success with both files written, or Failure.                 *)
(***************************************************************************)
OneResultPerFile ==
    mainPc = "finished" =>
        /\ futures = video_files
        /\ \A i, k \in 1..Len(video_files) :
               i # k => video_files[i] # video_files[k]
        /\ \A j \in Jobs :
               \/ Outcome(j) = "Success" /\ PairWritten(j)
               \/ Outcome(j) = "Failure"

(***************************************************************************)
(* C4  Extraction failure short-circuits and is a Failure.  A job whose    *)
(* decode failed never calls transcribe, leaves no output file, and its    *)
(* outcome is Failure.                                                     *)
(***************************************************************************)
ExtractionFailureIsFailure ==
    \A j \in Jobs :
        ExtractionFailed(j) =>
            /\ usedModel[j] = 0
            /\ result[j] = <<>>
            /\ (\A k \in Jobs \ {j} :
                    GetFilename(video_files[k]) # GetFilename(video_files[j]))
                  => \A path \in {VttPath(video_files[j]),
                                  SrtPath(video_files[j])} :
                         path \in DOMAIN fs => fs[path] = OldText
            /\ jobPc[j] \in TerminalPcs => Outcome(j) = "Failure"

(***************************************************************************)
(* C5  The model is loaded exactly once, before any dispatch, and every    *)
(* job uses that one instance.                                             *)
(***************************************************************************)
ModelLoadedOnce ==
    /\ futures # <<>> => (model # 0 /\ loads = 1)
    /\ \A j \in Jobs :
          /\ jobPc[j] \in {"transcribe", "restore", "restore_insert",
                         "write_vtt", "vtt_open", "vtt_close", "write_srt",
                         "srt_open", "srt_close"}
                => usedModel[j] = model
          /\ usedModel[j] \in {0, model}
          /\ jobPc[j] \in RaiseKinds => model # 0

\* two jobs have called transcribe, on the same single instance
ModelLoadedOnceWitness ==
    \E i, j \in Jobs :
        /\ i # j
        /\ usedModel[i] = 1 /\ usedModel[j] = 1
        /\ loads = 1

(***************************************************************************)
(* C6  Warnings are suppressed whenever some job is inside transcribe.     *)
(***************************************************************************)
SuppressedWhileTranscribing == InTranscribe # {} => Suppressed

(***************************************************************************)
(* C7  Once no job is between its suppress and its restore, the warning    *)
(* filters are what they were before the first transcription.              *)
(***************************************************************************)
AmbientRestored ==
    (futures # <<>> /\ InSuppressedSection = {}) => filters = AmbientFilters

(***************************************************************************)
(* C8  Calls into the shared model are serialized: never two jobs inside   *)
(* transcribe.                                                             *)
(***************************************************************************)
TranscribeSerialized == Cardinality(InTranscribe) <= 1

(***************************************************************************)
(* The writer specification: one job that has its transcript and is about  *)
(* to write, for every transcript of at most MaxSegs segments whose texts  *)
(* are over TextAlphabet and hold at most MaxTextLen characters together.  *)
(***************************************************************************)
TextAlphabet == {"a", "7", "\n"}

TextsUpTo(k) == UNION { [1..m -> TextAlphabet] : m \in 0..k }

RECURSIVE TextSeqs(_, _)
\* the sequences of n texts of at most budget characters in all
TextSeqs(n, budget) ==
    IF n = 0 THEN { <<>> }
    ELSE UNION { { <<t>> \o rest : rest \in TextSeqs(n - 1, budget - Len(t)) }
                 : t \in TextsUpTo(budget) }

\* segment i of a writer transcript lasts from 19(i-1)/16 s to 19i/16 s
WriterSegment(i, text) ==
    Seg(Sec(19 * (i - 1), 16), Sec(19 * i, 16), text)

WriterTranscripts ==
    UNION { { [i \in 1..n |-> WriterSegment(i, texts[i])]
              : texts \in TextSeqs(n, MaxTextLen) }
            : n \in 0..MaxSegs }

WriterFile == <<"a", ".", "m", "p", "4">>

InitWriter ==
    /\ mainPc = "collect"
    /\ setupOk = TRUE
    /\ dirExists = TRUE
    /\ listdirOk = TRUE
    /\ listing = <<WriterFile>>
    /\ cpu_count = 1
    /\ corrupt = {}
    /\ video_files = SelectVideos(listing)
    /\ model = 1
    /\ loads = 1
    /\ futures = video_files
    /\ queue = <<>>
    /\ jobPc = <<"write_vtt">>
    /\ audio_data = <<"buffer">>
    /\ usedModel = <<1>>
    /\ result \in { <<t>> : t \in WriterTranscripts }
    /\ fs = <<>>
    /\ filters = AddFilter(AddFilter(AmbientFilters, "ignore"), "default")
    /\ collected = {}
    /\ errorLog = {}

NextWriter ==
    \/ \E j \in JobIds : OpenVtt(j)
    \/ \E j \in JobIds : OpenVttRaises(j)
    \/ \E j \in JobIds : BufferVtt(j)
    \/ \E j \in JobIds : CloseVttRaises(j)
    \/ \E j \in JobIds : ShortWriteVtt(j)
    \/ \E j \in JobIds : CloseVtt(j)
    \/ \E j \in JobIds : OpenSrt(j)
    \/ \E j \in JobIds : OpenSrtRaises(j)
    \/ \E j \in JobIds : BufferSrt(j)
    \/ \E j \in JobIds : CloseSrtRaises(j)
    \/ \E j \in JobIds : ShortWriteSrt(j)
    \/ \E j \in JobIds : CloseSrt(j)
    \/ \E j \in JobIds : Collect(j)
    \/ \E j \in JobIds : CollectReraises(j)
    \/ RunRaises
    \/ JobFinished

SpecWriter == InitWriter /\ [][NextWriter]_vars

(***************************************************************************)
(* Reading a subtitle file back.                                           *)
(***************************************************************************)
DigitSet == {DigitChars[i] : i \in 1..Len(DigitChars)}

DigitValue(c) == CHOOSE d \in 0..9 : DigitChars[d + 1] = c

IsDigitLine(l) == l # <<>> /\ \A i \in 1..Len(l) : l[i] \in DigitSet

RECURSIVE ParseDecimal(_)
ParseDecimal(l) ==
    IF l = <<>> THEN 0
    ELSE 10 * ParseDecimal(SubSeq(l, 1, Len(l) - 1)) + DigitValue(l[Len(l)])

RECURSIVE SortedSeq(_)
\* the elements of a finite set of integers, ascending
SortedSeq(S) ==
    IF S = {} THEN <<>>
    ELSE LET m == CHOOSE x \in S : \A y \in S : x <= y
         IN  <<m>> \o SortedSeq(S \ {m})

\* an index line of an SRT file: a line of decimal digits that opens a block,
\* that is, the first line of the file or the line after an empty line
IndexLinePositions(lines) ==
    SortedSeq({p \in 1..Len(lines) :
                 /\ IsDigitLine(lines[p])
                 /\ p = 1 \/ lines[p - 1] = <<>>})

\* the cue-timing lines of a subtitle file
TimingLinePositions(lines) ==
    SortedSeq({p \in 1..Len(lines) : Contains(lines[p], TimingSep)})

\* N index lines, valued 1..N in this order, each followed by the timing line
\* of its segment
SrtIndexContract(content, transcript) ==
    LET lines == SplitLines(content)
        pos == IndexLinePositions(lines)
    IN  /\ Len(pos) = Len(transcript)
        /\ \A k \in 1..Len(pos) :
              /\ ParseDecimal(lines[pos[k]]) = k
              /\ pos[k] < Len(lines)
              /\ lines[pos[k] + 1] = TimingLine(transcript[k], ",")

\* the text write_srt emits for the segment has an empty line inside
HasBlankLine(segment) == Contains(CueText(segment), <<"\n", "\n">>)

(***************************************************************************)
(* C9 as stated  SRT index contract, for every transcript: the file a      *)
(* successful job wrote has exactly N index lines, valued 1..N in order,   *)
(* each followed by its segment's timing line.                             *)
(***************************************************************************)
SrtIndexContractAnyText ==
    \A j \in Jobs :
        Succeeded(j) =>
            SrtIndexContract(fs[SrtPath(video_files[j])], result[j])

(***************************************************************************)
(* C9 as amended  The same, for every transcript none of whose trimmed     *)
(* segment texts holds an empty line.                                      *)
(***************************************************************************)
SrtIndexContractNoBlankLine ==
    \A j \in Jobs :
        (Succeeded(j) /\ \A k \in 1..Len(result[j]) : ~ HasBlankLine(result[j][k]))
            => SrtIndexContract(fs[SrtPath(video_files[j])], result[j])

\* two segments were written: one whose text is a line of digits, one whose
\* text has a line break
SrtIndexContractWitness ==
    \E j \in Jobs :
        /\ Succeeded(j)
        /\ Len(result[j]) = 2
        /\ \E k \in 1..2 : IsDigitLine(CueText(result[j][k]))
        /\ \E k \in 1..2 : Contains(CueText(result[j][k]), <<"\n">>)
        /\ \A k \in 1..2 : ~ HasBlankLine(result[j][k])

\* the cues of a subtitle file: each timing line with the line after it
CuesOf(content) ==
    LET lines == SplitLines(content)
        pos == TimingLinePositions(lines)
    IN  [k \in 1..Len(pos) |->
            << lines[pos[k]],
               IF pos[k] < Len(lines) THEN lines[pos[k] + 1] ELSE <<>> >>]

\* the cues a transcript should give, in its order, as the bytes of a file
ExpectedCues(transcript, decimal_marker) ==
    [k \in 1..Len(transcript) |->
        << Utf8(TimingLine(transcript[k], decimal_marker)),
           Utf8(CueText(transcript[k])) >>]

\* the file starts with the WEBVTT header and no timing line has a number
\* line before it
VttShape(content) ==
    LET lines == SplitLines(content)
        pos == TimingLinePositions(lines)
    IN  /\ OccursAt(content, VttHeader, 1)
        /\ \A k \in 1..Len(pos) : pos[k] > 1 /\ lines[pos[k] - 1] = <<>>

\* both files of job j hold exactly the cues of j's own transcript, in order
OwnCuesInBothFiles(j) ==
    /\ PairWritten(j)
    /\ CuesOf(fs[VttPath(video_files[j])]) = ExpectedCues(result[j], ".")
    /\ CuesOf(fs[SrtPath(video_files[j])]) = ExpectedCues(result[j], ",")
    /\ VttShape(fs[VttPath(video_files[j])])

(***************************************************************************)
(* C10  Segment order and completeness.  For every job that succeeded,     *)
(* its .vtt and its .srt each hold one cue per segment of the job's own    *)
(* transcript, in the transcript's order; the .vtt starts with the WEBVTT  *)
(* header and carries no sequence numbers.                                 *)
(***************************************************************************)
SegmentsPreserved ==
    \A j \in Jobs : Succeeded(j) => OwnCuesInBothFiles(j)

\* the same for the jobs whose input shares its name with no other input:
\* this holds, so that C10 fails through shared output paths alone
SegmentsPreservedUnshared ==
    \A j \in Jobs : (Succeeded(j) /\ ~ SharesStem(j)) => OwnCuesInBothFiles(j)

(***************************************************************************)
(* The sanitizer specification: one job about to write a transcript of one *)
(* segment, for every text over ArrowAlphabet of at most MaxArrowLen       *)
(* characters.                                                             *)
(***************************************************************************)
\* characters of the texts drawn for the sanitizer
ArrowAlphabet == {"-", ">", "a"}

ArrowTexts == UNION { [1..m -> ArrowAlphabet] : m \in 0..MaxArrowLen }

InitSanitize ==
    /\ mainPc = "collect"
    /\ setupOk = TRUE
    /\ dirExists = TRUE
    /\ listdirOk = TRUE
    /\ listing = <<WriterFile>>
    /\ cpu_count = 1
    /\ corrupt = {}
    /\ video_files = SelectVideos(listing)
    /\ model = 1
    /\ loads = 1
    /\ futures = video_files
    /\ queue = <<>>
    /\ jobPc = <<"write_vtt">>
    /\ audio_data = <<"buffer">>
    /\ usedModel = <<1>>
    /\ result \in { << <<WriterSegment(1, text)>> >> : text \in ArrowTexts }
    /\ fs = <<>>
    /\ filters = AddFilter(AddFilter(AmbientFilters, "ignore"), "default")
    /\ collected = {}
    /\ errorLog = {}

SpecSanitize == InitSanitize /\ [][NextWriter]_vars

\* the text lines of the cues of a subtitle file
CueTextLines(content) ==
    LET cues == CuesOf(content)
    IN  { cues[k][2] : k \in 1..Len(cues) }

(***************************************************************************)
(* C11  Arrow sanitization is idempotent and complete.  For every segment  *)
(* text a job wrote, replacing the arrow in the emitted text once more     *)
(* changes nothing, the emitted text holds no '-->', and so the only lines *)
(* of either file that hold '-->' are the timing lines of the segments.    *)
(***************************************************************************)
ArrowSanitized ==
    \A j \in Jobs :
        Succeeded(j) =>
            /\ \A k \in 1..Len(result[j]) :
                  /\ Replace(CueText(result[j][k]), Arrow, ShortArrow)
                        = CueText(result[j][k])
                  /\ ~ Contains(CueText(result[j][k]), Arrow)
            /\ \A path \in {VttPath(video_files[j]), SrtPath(video_files[j])} :
                  LET lines == SplitLines(fs[path])
                  IN  Cardinality({p \in 1..Len(lines) : Contains(lines[p], Arrow)})
                         = Len(result[j])

(***************************************************************************)
(* The timestamp specification: one job about to write a transcript of one *)
(* segment, for every start and end among the millisecond values within    *)
(* MaxDelta of a unit boundary, and 59.9995 s.                             *)
(***************************************************************************)
\* where a unit carries: 0, one second, one minute, one hour, a hundred hours
UnitBoundaries == {0, MsPerSecond, MsPerMinute, MsPerHour, 100 * MsPerHour}

BoundaryMs ==
    { m \in UNION { (b - MaxDelta)..(b + MaxDelta) : b \in UnitBoundaries } :
        m >= 0 }

\* 59.9995 s, the value of the carry example
HalfCarry == Sec(119999, 2000)

\* -0.001 s, for which line 16 raises
BelowZero == Sec(0 - 1, MsPerSecond)

TimestampInputs ==
    { Sec(m, MsPerSecond) : m \in BoundaryMs } \cup {HalfCarry, BelowZero}

InitTimestamp ==
    /\ mainPc = "collect"
    /\ setupOk = TRUE
    /\ dirExists = TRUE
    /\ listdirOk = TRUE
    /\ listing = <<WriterFile>>
    /\ cpu_count = 1
    /\ corrupt = {}
    /\ video_files = SelectVideos(listing)
    /\ model = 1
    /\ loads = 1
    /\ futures = video_files
    /\ queue = <<>>
    /\ jobPc = <<"write_vtt">>
    /\ audio_data = <<"buffer">>
    /\ usedModel = <<1>>
    /\ result \in { << <<Seg(pair[1], pair[2], <<"a">>)>> >> :
                      pair \in { q \in TimestampInputs \X TimestampInputs :
                                   \/ ~ NonNegative(q[1])
                                   \/ /\ NonNegative(q[2])
                                      /\ RoundMs(q[1]) <= RoundMs(q[2]) } }
    /\ fs = <<>>
    /\ filters = AddFilter(AddFilter(AmbientFilters, "ignore"), "default")
    /\ collected = {}
    /\ errorLog = {}

SpecTimestamp == InitTimestamp /\ [][NextWriter]_vars

(***************************************************************************)
(* Reading a timestamp back.                                               *)
(***************************************************************************)
\* the start and end timestamps of the k-th timing line of a file
WrittenTimestamps(content, k) ==
    LET line == CuesOf(content)[k][1]
        p == CHOOSE i \in 1..Len(line) : OccursAt(line, TimingSep, i)
    IN  << SubSeq(line, 1, p - 1),
           SubSeq(line, p + Len(TimingSep), Len(line)) >>

\* hours of at least 2 digits, ':', 2 digits, ':', 2 digits, marker, 3 digits
TimestampShape(ts, decimal_marker) ==
    LET n == Len(ts)
    IN  /\ n >= 12
        /\ IsDigitLine(SubSeq(ts, 1, n - 10))
        /\ ts[n - 9] = ":"
        /\ IsDigitLine(SubSeq(ts, n - 8, n - 7))
        /\ ts[n - 6] = ":"
        /\ IsDigitLine(SubSeq(ts, n - 5, n - 4))
        /\ ts[n - 3] = decimal_marker
        /\ IsDigitLine(SubSeq(ts, n - 2, n))

\* the fields a well-shaped timestamp shows
ParsedFields(ts) ==
    LET n == Len(ts)
    IN  [hours |-> ParseDecimal(SubSeq(ts, 1, n - 10)),
         minutes |-> ParseDecimal(SubSeq(ts, n - 8, n - 7)),
         seconds |-> ParseDecimal(SubSeq(ts, n - 5, n - 4)),
         milliseconds |-> ParseDecimal(SubSeq(ts, n - 2, n))]

\* a written timestamp decomposes the rounded value exactly
ExactTimestamp(ts, decimal_marker, seconds) ==
    /\ TimestampShape(ts, decimal_marker)
    /\ LET f == ParsedFields(ts)
       IN  /\ f.hours >= 0
           /\ f.minutes \in 0..59
           /\ f.seconds \in 0..59
           /\ f.milliseconds \in 0..999
           /\ f.hours * MsPerHour + f.minutes * MsPerMinute
                 + f.seconds * MsPerSecond + f.milliseconds = RoundMs(seconds)

(***************************************************************************)
(* C12  Timestamp decomposition is exact.  Every timestamp a job wrote, in *)
(* the .vtt and in the .srt, has hours of at least 2 digits, minutes and   *)
(* seconds of exactly 2 digits within 0..59, milliseconds of exactly 3     *)
(* digits, and its fields add up to the rounded millisecond value.         *)
(***************************************************************************)
TimestampExact ==
    \A j \in Jobs :
        Succeeded(j) =>
            \A k \in 1..Len(result[j]) :
                LET v == WrittenTimestamps(fs[VttPath(video_files[j])], k)
                    s == WrittenTimestamps(fs[SrtPath(video_files[j])], k)
                IN  /\ ExactTimestamp(v[1], ".", result[j][k].start)
                    /\ ExactTimestamp(v[2], ".", result[j][k].end)
                    /\ ExactTimestamp(s[1], ",", result[j][k].start)
                    /\ ExactTimestamp(s[2], ",", result[j][k].end)

\* a segment from 00:59:59.999 to 100:00:00.000 was written
TimestampExactWitness ==
    \E j \in Jobs :
        /\ Succeeded(j)
        /\ RoundMs(result[j][1].start) = MsPerHour - 1
        /\ RoundMs(result[j][1].end) = 100 * MsPerHour
        /\ Len(WrittenTimestamps(fs[SrtPath(video_files[j])], 1)[2]) = 13

\* what is written for 59.9995 s, in either position of the timing line
HalfCarryWrittenAs(expected) ==
    \A j \in Jobs :
        Succeeded(j) =>
            \A k \in 1..Len(result[j]) :
                LET v == WrittenTimestamps(fs[VttPath(video_files[j])], k)
                IN  /\ result[j][k].start = HalfCarry => v[1] = expected
                    /\ result[j][k].end = HalfCarry => v[2] = expected

(***************************************************************************)
(* C15 as stated  59.9995 s is written as "01:00:00.000".                  *)
(***************************************************************************)
HalfCarryIsOneHour ==
    HalfCarryWrittenAs(<<"0", "1", ":", "0", "0", ":", "0", "0", ".",
                         "0", "0", "0">>)

(***************************************************************************)
(* C15 as amended  59.9995 s rounds to 60000 ms, the carry goes into the   *)
(* minutes, and it is written as "00:01:00.000".                           *)
(***************************************************************************)
HalfCarryIsOneMinute ==
    HalfCarryWrittenAs(<<"0", "0", ":", "0", "1", ":", "0", "0", ".",
                         "0", "0", "0">>)

\* a job wrote a segment that ends at 59.9995 s
HalfCarryWitness ==
    \E j \in Jobs :
        /\ Succeeded(j)
        /\ result[j][1].end = HalfCarry
        /\ VttPath(video_files[j]) \in DOMAIN fs


\* no job to run: the directory is missing or holds no name that ends in a
\* supported extension
NoEligibleFile ==
    \/ ~ dirExists
    \/ \A k \in 1..Len(listing) :
           \A ext \in SUPPORTED_EXTENSIONS : ~ EndsWith(listing[k], ext)

\* run() submits no job, never loads the model, writes no file (the files
\* are those it started with), raises nothing and stops: from the start it
\* can move on, and after the early return nothing more can happen
CleanEmptyRun ==
    /\ mainPc \in {"start", "no_videos"}
    /\ video_files = <<>>
    /\ futures = <<>>
    /\ queue = <<>>
    /\ jobPc = <<>>
    /\ loads = 0
    /\ model = 0
    /\ fs \in StartFiles
    /\ errorLog = {}
    /\ filters = AmbientFilters
    /\ mainPc = "start" => ENABLED (Discover \/ SetupRaises \/ DiscoverRaises)
    /\ mainPc = "no_videos" => ~ ENABLED Next

(***************************************************************************)
(* C13  An empty or missing source directory yields a clean empty run.     *)
(* When the directory does not exist, or holds no name that ends in .mp4,  *)
(* .mov, .avi or .mkv, run() submits no job, never loads the model, writes *)
(* no file, raises nothing and stops.                                      *)
(***************************************************************************)
EmptyRunIsClean == NoEligibleFile => CleanEmptyRun

\* the same for the runs whose setup (lines 120-121) returns, a failure of
\* which is fatal to any run: os.listdir still raises for a directory that
\* holds no video and cannot be read
EmptyRunIsCleanAfterSetup == (setupOk /\ NoEligibleFile) => CleanEmptyRun

\* and for the runs whose source directory can also be listed: this holds
EmptyRunIsCleanWhenListed ==
    (setupOk /\ (dirExists => listdirOk) /\ NoEligibleFile) => CleanEmptyRun

(***************************************************************************)
(* Fair scheduling: run()'s own thread keeps going, a pool thread that is  *)
(* free takes the head of the queue, and every external call of a job      *)
(* (decode, transcription, file write) eventually returns or fails.        *)
(***************************************************************************)
MainStep ==
    \/ SetupRaises
    \/ DiscoverRaises
    \/ Discover
    \/ LoadModel
    \/ LoadModelRaises
    \/ Submit
    \/ \E j \in JobIds : Collect(j)
    \/ \E j \in JobIds : CollectReraises(j)
    \/ RunRaises
    \/ JobFinished

JobStep(j) ==
    \/ WorkerStart(j)
    \/ ExtractRaises(j)
    \/ ExtractFails(j)
    \/ ExtractOk(j)
    \/ SuppressRemove(j)
    \/ SuppressInsert(j)
    \/ TranscribeCall(j)
    \/ TranscribeRaises(j)
    \/ \E t \in Transcripts : TranscribeReturns(j, t)
    \/ RestoreRemove(j)
    \/ RestoreWarnings(j)
    \/ OpenVttRaises(j)
    \/ OpenVtt(j)
    \/ BufferVtt(j)
    \/ CloseVttRaises(j)
    \/ ShortWriteVtt(j)
    \/ CloseVtt(j)
    \/ OpenSrtRaises(j)
    \/ OpenSrt(j)
    \/ BufferSrt(j)
    \/ CloseSrtRaises(j)
    \/ ShortWriteSrt(j)
    \/ CloseSrt(j)

FairSpec ==
    /\ Spec
    /\ WF_vars(MainStep)
    /\ \A j \in JobIds : WF_vars(JobStep(j))

(***************************************************************************)
(* C14  The run terminates with every job finished under a bounded pool.   *)
(* Under fair scheduling a run that has begun to submit jobs eventually    *)
(* reports finished, with one job submitted per discovered file and every  *)
(* job in a terminal state, so that every job left the queue and ran to    *)
(* its end: also with failed jobs.                                         *)
(***************************************************************************)
RunTerminates ==
    (mainPc \in {"submit", "collect"})
        ~> (/\ mainPc = "finished"
            /\ Jobs = 1..Len(video_files)
            /\ queue = <<>>
            /\ \A j \in Jobs : jobPc[j] \in TerminalPcs)

\* what does hold: every job leaves the queue and runs to its end, and
\* run() ends, by line 142 or by the exception of a job
RunEnds ==
    (mainPc \in {"submit", "collect"})
        ~> (/\ mainPc \in {"finished", "crashed"}
            /\ Jobs = 1..Len(video_files)
            /\ queue = <<>>
            /\ \A j \in Jobs : jobPc[j] \in TerminalPcs)


\* the job has opened its .vtt / its .srt for writing
WroteVtt(j) ==
    \/ jobPc[j] \in {"vtt_open", "vtt_close", "write_srt", "srt_open",
                     "srt_close"}
    \/ Succeeded(j)
WroteSrt(j) == jobPc[j] \in {"srt_open", "srt_close"} \/ Succeeded(j)

(***************************************************************************)
(* C16  Output files are never shared between jobs.  No two jobs of a run  *)
(* write the same .vtt or the same .srt path, and when the run is finished *)
(* every job that succeeded owns an intact pair: files that hold the cues  *)
(* of its own transcript.                                                  *)
(***************************************************************************)
OutputsNeverShared ==
    /\ \A i, j \in Jobs :
          i # j =>
              /\ (WroteVtt(i) /\ WroteVtt(j)) =>
                     VttPath(video_files[i]) # VttPath(video_files[j])
              /\ (WroteSrt(i) /\ WroteSrt(j)) =>
                     SrtPath(video_files[i]) # SrtPath(video_files[j])
    /\ mainPc = "finished" =>
          \A j \in Jobs : Succeeded(j) => OwnCuesInBothFiles(j)

(***************************************************************************)
(* C17  The final run message is truthful.  run() prints 'Job finished.    *)
(* All videos processed successfully.' only when every submitted job       *)
(* succeeded: none had an extraction failure and none raised.              *)
(***************************************************************************)
FinalMessageTruthful ==
    mainPc = "finished" => \A j \in Jobs : Succeeded(j) /\ ~ Failed(j)

=============================================================================
